---- MODULE Spec2Model ----
(***************************************************************************)
(* disk_throughput_win.py: unbuffered write/read throughput measurement.   *)
(*                                                                         *)
(* The model follows main() from the point where the arguments are parsed  *)
(* and the volume geometry has been queried (line 247) to the end of the   *)
(* run: sizing, the write direction, the read direction, the summary and   *)
(* the removal of the test file.  Win32 calls are the environment: each    *)
(* call that can fail in the source has a failing outcome here.            *)
(*                                                                         *)
(* Time is counted in ticks of the performance counter: elapsed,           *)
(* total_elapsed and min_seconds are whole numbers of ticks.  A throughput *)
(* sample is the exact fraction <<numerator, denominator>> of the float    *)
(* the source computes.                                                    *)
(***************************************************************************)
EXTENDS Integers, Sequences, FiniteSets, TLC

\* ------------------------------------------------------------------ bounds
MaxFreeK == 4         \* free_bytes ranges over 1000 * (0..MaxFreeK)
MaxSizeK == 2         \* --size-bytes ranges over 2500 * (0..MaxSizeK)
MaxPasses == 2        \* --passes ranges over 0..MaxPasses
MaxMinSeconds == 1    \* --min-seconds ranges over 0..MaxMinSeconds ticks
MaxElapsed == 1       \* one pass measures at most MaxElapsed ticks

\* A direction runs at most MaxDone passes in the model.  With passes of at
\* least one tick, Max(passes, min_seconds) passes always suffice, so the cap
\* is reached only by passes that measure zero ticks.
MaxDone == MaxPasses + MaxMinSeconds + 1

\* ------------------------------------------------------- program constants
KiB == 1024           \* the factor of --size-kb and --block-kb
MiB == 1024 * 1024    \* the factor of --size-mb and of throughput_mb_s

None == "None"        \* Python's None for h before the open and for "no error"
Absent == -1          \* Python's None for an integer option that was not given

\* ------------------------------------------------------------ pure helpers
align_down_unaligned(x, multiple) == (x % multiple) * multiple
align_down(x, multiple) == (x \div multiple) * multiple

align_up(x, multiple) == ((x + multiple - 1) \div multiple) * multiple

throughput_mb_s(total_bytes, seconds) ==
    IF seconds > 0 THEN <<total_bytes, MiB * seconds>> ELSE <<0, 1>>

\* parse_size: --size-bytes overrides --size-kb overrides --size-mb.
parse_size(a) ==
    IF a.size_bytes # Absent THEN a.size_bytes
    ELSE IF a.size_kb # Absent THEN a.size_kb * KiB
    ELSE a.size_mb * MiB

\* int(free_bytes * 0.8): the double product truncated.  For every
\* free_bytes below 2^50 it equals floor(4 * free_bytes / 5).
EightyPercent(free) == (4 * free) \div 5

\* line 249
MaxBytes_noheadroom(free, sector, req, no_autofit) ==
    IF ~no_autofit THEN align_down(free, sector) ELSE req
MaxBytes(free, sector, req, no_autofit) ==
    IF ~no_autofit THEN align_down(EightyPercent(free), sector) ELSE req

\* line 252: the condition of the insufficient-space exit
SpaceCheckFails_vs_max(req, free, maxb, no_autofit) == req > maxb /\ no_autofit
SpaceCheckFails(req, free, maxb, no_autofit) == req > free /\ no_autofit

\* lines 255-257
ChooseFileSize(req, maxb, no_autofit) ==
    IF ~no_autofit /\ (req = 0 \/ req > maxb) THEN maxb ELSE req

\* lines 259-260
ClampToSector(fs, sector) == IF fs < sector THEN sector ELSE fs

\* lines 262-266
BlockSize(block_kb, sector, fs) ==
    LET b0 == block_kb * KiB
        b1 == IF b0 % sector # 0 THEN align_up(b0, sector) ELSE b0
    IN  IF b1 > fs THEN fs ELSE b1

\* lines 267-269
Realign_skipped(fs, bs) == fs
Realign(fs, bs) ==
    LET f == align_down(fs, bs) IN IF f = 0 THEN bs ELSE f

\* The planner of main as a function of its inputs (lines 249-269); undefined
\* where line 253 exits.
PlanFile(free, sector, req, block_kb, no_autofit) ==
    LET maxb == MaxBytes(free, sector, req, no_autofit)
        fs == ClampToSector(ChooseFileSize(req, maxb, no_autofit), sector)
    IN  Realign(fs, BlockSize(block_kb, sector, fs))

\* line 158 / line 187: the condition under which another pass is started
LoopCond_and(d, passes, total, min_seconds) == (d < passes) /\ (total < min_seconds)
LoopCond_le(d, passes, total, min_seconds) == (d < passes) \/ (total <= min_seconds)
LoopCond(d, passes, total, min_seconds) == (d < passes) \/ (total < min_seconds)

\* line 164 / line 193
ThisIo(remaining, bs) == IF remaining >= bs THEN bs ELSE remaining

\* line 166 / line 195: the transfer is rejected
TransferFailed_okonly(ok, n, this_io) == ~ok
TransferFailed(ok, n, this_io) == ~ok \/ n # this_io

\* lines 174-176 / 203-205: the finally clause of a direction, on the set of
\* handles the process holds open
Finally_noclose(handles, hh) == handles
Finally(handles, hh) == IF hh # None THEN handles \ {hh} ELSE handles

\* line 297
ShouldRemove_always(keep) == TRUE
ShouldRemove(keep) == ~keep

\* lines 284-291: what summarize prints for one direction (the per-pass values
\* under the title; min(values) raises before anything is printed when values
\* is empty)
summarize(title, values) == [title |-> title, passes |-> values]

\* ------------------------------------------------------------------- state
VARIABLES
    args,           \* the parsed command line (line 238)
    sector_size,    \* get_sector_size(target_dir), line 244
    free_bytes,     \* get_free_bytes(target_dir), line 245
    clock_floor,    \* the least number of ticks the performance counter
                    \* measures for one pass on this machine
    requested, max_bytes, file_size, block_size,     \* locals of main
    pc,             \* where the run is
    dir,            \* the direction whose function is active
    h,              \* the local h of the active direction
    open_handles,   \* the handles the process holds open
    pos,            \* the file pointer of the open handle
    file_exists,    \* diskperf_test.bin exists in the target directory
    per_pass, total_elapsed, done, remaining,   \* locals of the active direction
    w_passes, r_passes,                         \* locals of main, lines 281-282
    out,            \* the summaries printed, in order
    err,            \* the exception that ended the run, None while there is none
    remove_calls    \* the calls of os.remove

vars == <<args, sector_size, free_bytes, clock_floor, requested, max_bytes,
          file_size, block_size, pc, dir, h, open_handles, pos, file_exists,
          per_pass, total_elapsed, done, remaining, w_passes, r_passes, out,
          err, remove_calls>>

plan_vars == <<requested, max_bytes, file_size, block_size>>
env_vars == <<args, sector_size, free_bytes, clock_floor>>
loop_vars == <<per_pass, total_elapsed, done, remaining>>
result_vars == <<w_passes, r_passes, out>>

\* --------------------------------------------------------------- the inputs
FreeGrid == {1000 * k : k \in 0..MaxFreeK}
SizeGrid == {2500 * k : k \in 0..MaxSizeK}

\* sector size and free space of the volume: a grid of small volumes, and the
\* volume of 1,000,000 free bytes
Volumes == {512, 520, 4096} \X (FreeGrid \cup {1000000})

ArgsOf(sizes_b, sizes_kb, blocks, keeps, autofits, pass_counts, mins) ==
    [size_bytes : sizes_b, size_kb : sizes_kb, size_mb : {1024},
     block_kb : blocks, keep : keeps, no_autofit : autofits,
     passes : pass_counts, min_seconds : mins]

InitWith(volumes, argset, floors) ==
    /\ args \in argset
    /\ \E v \in volumes : sector_size = v[1] /\ free_bytes = v[2]
    /\ clock_floor \in floors
    /\ requested = 0 /\ max_bytes = 0 /\ file_size = 0 /\ block_size = 0
    /\ pc = "size"
    /\ dir = None /\ h = None /\ open_handles = {} /\ pos = 0
    /\ file_exists = FALSE
    /\ per_pass = <<>> /\ total_elapsed = 0 /\ done = 0 /\ remaining = 0
    /\ w_passes = <<>> /\ r_passes = <<>> /\ out = <<>>
    /\ err = None
    /\ remove_calls = 0

\* Every pass count, minimum duration and clock, on a small volume.
Init ==
    InitWith({512} \X {1000 * MaxFreeK},
             ArgsOf({0, 2500 * MaxSizeK}, {Absent}, {1, 1024}, BOOLEAN, BOOLEAN,
                    0..MaxPasses, 0..MaxMinSeconds),
             {0, 1})

\* Every volume and size request, with at most one pass per direction.
PlanInit ==
    InitWith(Volumes,
             ArgsOf({Absent} \cup SizeGrid, {Absent, 48}, {1, 4, 1024}, {FALSE},
                    BOOLEAN, {0, 1}, {0}),
             {1})

\* ------------------------------------------------------------------ sizing
\* main, lines 247-253: the request exceeds the free space and autofit is off
SizeRejected ==
    /\ pc = "size"
    /\ LET req == parse_size(args)
           maxb == MaxBytes(free_bytes, sector_size, req, args.no_autofit)
       IN  /\ SpaceCheckFails(req, free_bytes, maxb, args.no_autofit)
           /\ requested' = req
           /\ max_bytes' = maxb
    /\ err' = "InsufficientSpaceError"
    /\ pc' = "exit"
    /\ UNCHANGED <<env_vars, file_size, block_size, dir, h, open_handles, pos,
                   file_exists, loop_vars, result_vars, remove_calls>>

\* main, lines 247-257: the size of the file before the sector clamp
SizeChosen ==
    /\ pc = "size"
    /\ LET req == parse_size(args)
           maxb == MaxBytes(free_bytes, sector_size, req, args.no_autofit)
       IN  /\ ~SpaceCheckFails(req, free_bytes, maxb, args.no_autofit)
           /\ requested' = req
           /\ max_bytes' = maxb
           /\ file_size' = ChooseFileSize(req, maxb, args.no_autofit)
    /\ pc' = "align"
    /\ UNCHANGED <<env_vars, block_size, dir, h, open_handles, pos, file_exists,
                   loop_vars, result_vars, err, remove_calls>>

\* main, lines 259-269 and the call of run_write_tests, line 281
AlignPlan ==
    /\ pc = "align"
    /\ LET fs == ClampToSector(file_size, sector_size)
           bs == BlockSize(args.block_kb, sector_size, fs)
       IN  /\ block_size' = bs
           /\ file_size' = Realign(fs, bs)
    /\ dir' = "write"
    /\ pc' = "open"
    /\ UNCHANGED <<env_vars, requested, max_bytes, h, open_handles, pos,
                   file_exists, loop_vars, result_vars, err, remove_calls>>

\* ------------------------------------------------- one direction of the run
\* An exception leaves the active direction: its finally clause closes the
\* handle if it was opened (lines 174-176 / 203-205), and the exception
\* reaches the finally clause of main (line 296).
Raise(e) ==
    /\ err' = e
    /\ open_handles' = Finally(open_handles, h)
    /\ h' = None
    /\ pc' = "cleanup"

\* open_unbuffered, line 150 (CREATE_ALWAYS) / line 181 (OPEN_EXISTING)
OpenUnbuffered ==
    /\ pc = "open"
    /\ \E ok \in BOOLEAN :
        IF ok /\ (dir = "write" \/ file_exists)
        THEN /\ h' = dir
             /\ open_handles' = open_handles \cup {dir}
             /\ pos' = 0
             /\ file_exists' = TRUE
             /\ pc' = IF dir = "write" THEN "set_size" ELSE "alloc"
             /\ UNCHANGED err
        ELSE /\ Raise("OpenError")
             /\ UNCHANGED <<pos, file_exists>>
    /\ UNCHANGED <<env_vars, plan_vars, dir, loop_vars, result_vars, remove_calls>>

\* set_file_size, line 151 (write direction only)
SetFileSize ==
    /\ pc = "set_size"
    /\ \E ok \in BOOLEAN :
        IF ok
        THEN /\ pos' = 0
             /\ pc' = "alloc"
             /\ UNCHANGED <<h, open_handles, err>>
        ELSE /\ Raise("ResizeError")
             /\ UNCHANGED pos
    /\ UNCHANGED <<env_vars, plan_vars, dir, file_exists, loop_vars, result_vars,
                   remove_calls>>

\* alloc_aligned and the initial values of the loop, lines 152-157 / 182-186
AllocBuffer ==
    /\ pc = "alloc"
    /\ \E ok \in BOOLEAN :
        IF ok
        THEN /\ per_pass' = <<>>
             /\ total_elapsed' = 0
             /\ done' = 0
             /\ pc' = "loop"
             /\ UNCHANGED <<h, open_handles, err, remaining>>
        ELSE /\ Raise("AllocationError")
             /\ UNCHANGED loop_vars
    /\ UNCHANGED <<env_vars, plan_vars, dir, pos, file_exists, result_vars,
                   remove_calls>>

\* The loop condition holds: set_pointer(h, 0) and the start of the pass,
\* lines 158-162 / 187-191.
BeginPass ==
    /\ pc = "loop"
    /\ LoopCond(done, args.passes, total_elapsed, args.min_seconds)
    /\ done < MaxDone
    /\ \E ok \in BOOLEAN :
        IF ok
        THEN /\ pos' = 0
             /\ remaining' = file_size
             /\ pc' = "xfer"
             /\ UNCHANGED <<h, open_handles, err>>
        ELSE /\ Raise("SeekError")
             /\ UNCHANGED <<pos, remaining>>
    /\ UNCHANGED <<env_vars, plan_vars, dir, file_exists, per_pass, total_elapsed,
                   done, result_vars, remove_calls>>

\* One WriteFile / ReadFile of the inner loop, lines 163-168 / 192-197.  The
\* call reports ok and the byte count n it moved.
Transfer ==
    /\ pc = "xfer"
    /\ remaining > 0
    /\ LET this_io == ThisIo(remaining, block_size)
       IN  \E ok \in BOOLEAN, n \in {0, this_io \div 2, this_io} :
            /\ (~ok => n = 0)
            /\ pos' = pos + n
            /\ IF TransferFailed(ok, n, this_io)
               THEN /\ Raise("PartialTransferError")
                    /\ UNCHANGED remaining
               ELSE /\ remaining' = remaining - this_io
                    /\ UNCHANGED <<pc, h, open_handles, err>>
    /\ UNCHANGED <<env_vars, plan_vars, dir, file_exists, per_pass, total_elapsed,
                   done, result_vars, remove_calls>>

\* The end of a pass, lines 169-172 / 198-201: the counter has advanced by
\* elapsed ticks since line 162.
EndPass ==
    /\ pc = "xfer"
    /\ remaining <= 0
    /\ \E elapsed \in clock_floor..MaxElapsed :
        /\ total_elapsed' = total_elapsed + elapsed
        /\ per_pass' = Append(per_pass, throughput_mb_s(file_size, elapsed))
    /\ done' = done + 1
    /\ pc' = "loop"
    /\ UNCHANGED <<env_vars, plan_vars, dir, h, open_handles, pos, file_exists,
                   remaining, result_vars, err, remove_calls>>

\* The loop condition fails: return per_pass through the finally clause,
\* lines 173-176 / 202-205, to main, line 281 / 282.
ReturnPasses ==
    /\ pc = "loop"
    /\ ~LoopCond(done, args.passes, total_elapsed, args.min_seconds)
    /\ open_handles' = Finally(open_handles, h)
    /\ h' = None
    /\ IF dir = "write"
       THEN /\ w_passes' = per_pass
            /\ dir' = "read"
            /\ pc' = "open"
            /\ UNCHANGED r_passes
       ELSE /\ r_passes' = per_pass
            /\ dir' = None
            /\ pc' = "summarize"
            /\ UNCHANGED w_passes
    /\ UNCHANGED <<env_vars, plan_vars, pos, file_exists, loop_vars, out, err,
                   remove_calls>>

\* ------------------------------------------------- the summary and the exit
\* main, lines 284-294: both summaries, the first empty series raising
\* ValueError from min(values)
Summarize ==
    /\ pc = "summarize"
    /\ IF w_passes = <<>>
       THEN /\ err' = "ValueError"
            /\ UNCHANGED out
       ELSE IF r_passes = <<>>
       THEN /\ err' = "ValueError"
            /\ out' = <<summarize("Write", w_passes)>>
       ELSE /\ out' = <<summarize("Write", w_passes), summarize("Read", r_passes)>>
            /\ UNCHANGED err
    /\ pc' = "cleanup"
    /\ UNCHANGED <<env_vars, plan_vars, dir, h, open_handles, pos, file_exists,
                   loop_vars, w_passes, r_passes, remove_calls>>

\* main, lines 296-301: os.remove unless --keep; whatever it raises is dropped
Cleanup ==
    /\ pc = "cleanup"
    /\ IF ShouldRemove(args.keep)
       THEN /\ remove_calls' = remove_calls + 1
            /\ \E removed \in BOOLEAN :
                /\ (removed => file_exists)
                /\ file_exists' = (file_exists /\ ~removed)
       ELSE UNCHANGED <<remove_calls, file_exists>>
    /\ pc' = "exit"
    /\ UNCHANGED <<env_vars, plan_vars, dir, h, open_handles, pos, loop_vars,
                   result_vars, err>>

Next ==
    \/ SizeRejected
    \/ SizeChosen
    \/ AlignPlan
    \/ OpenUnbuffered
    \/ SetFileSize
    \/ AllocBuffer
    \/ BeginPass
    \/ Transfer
    \/ EndPass
    \/ ReturnPasses
    \/ Summarize
    \/ Cleanup

Spec == Init /\ [][Next]_vars

PlanSpec == PlanInit /\ [][Next]_vars

\* Every call returns: a step that can be taken is taken.
FairSpec == Init /\ [][Next]_vars /\ WF_vars(Next)

\* ------------------------------------------------------------------ claims
\* The planner has produced a plan: lines 247-269 have run without the exit of
\* line 253.
Planned == pc \notin {"size", "align"} /\ err # "InsufficientSpaceError"

\* The plan has just been produced.
JustPlanned == pc = "open" /\ dir = "write"

\* C1: whenever the planner produces a plan, the final block_size is a whole
\* multiple of sector_size, also where the block was shrunk to the file size.
C1_BlockSectorAligned == Planned => block_size % sector_size = 0

\* C2: whenever the planner produces a plan, file_size > 0, file_size >=
\* sector_size, block_size <= file_size and file_size is a whole number of
\* blocks.
C2_PlanInvariants ==
    Planned =>
        /\ file_size > 0
        /\ file_size >= sector_size
        /\ block_size <= file_size
        /\ file_size % block_size = 0

\* The block was shrunk or the file was cut down to whole blocks.
C2_Witness ==
    /\ Planned
    /\ file_size > block_size
    /\ file_size < requested
    /\ args.no_autofit

\* C3: with autofit on, max_bytes is floor(0.8 * free_bytes) cut down to a
\* sector multiple; the size chosen before the sector clamp is max_bytes when
\* the request is 0 or exceeds max_bytes and the request otherwise; the planned
\* file_size exceeds max_bytes only where it is exactly one sector; and 512-byte
\* sectors, 1,000,000 free bytes, a request of 0 and a block of 1 MiB give
\* max_bytes = file_size = block_size = 799744.
C3_Autofit ==
    ~args.no_autofit =>
        /\ pc # "size" =>
            /\ max_bytes % sector_size = 0
            /\ 5 * max_bytes <= 4 * free_bytes
            /\ 4 * free_bytes < 5 * (max_bytes + sector_size)
        /\ pc = "align" =>
            file_size = IF requested = 0 \/ requested > max_bytes
                        THEN max_bytes ELSE requested
        /\ Planned => (file_size <= max_bytes \/ file_size = sector_size)
        /\ (/\ Planned
            /\ sector_size = 512 /\ free_bytes = 1000000
            /\ requested = 0 /\ args.block_kb = 1024) =>
                /\ max_bytes = 799744
                /\ file_size = 799744
                /\ block_size = 799744

C3_Witness ==
    /\ Planned /\ ~args.no_autofit
    /\ sector_size = 512 /\ free_bytes = 1000000
    /\ args.size_bytes = 0 /\ args.block_kb = 1024
    /\ file_size = 799744

\* C4: with autofit off and a request above the free space the run ends with
\* the insufficient-space error; the test file is never opened or created, no
\* plan is produced, no pass starts and no sample is recorded.
C4_InsufficientSpace ==
    (args.no_autofit /\ parse_size(args) > free_bytes /\ pc # "size") =>
        /\ pc = "exit"
        /\ err = "InsufficientSpaceError"
        /\ file_size = 0 /\ block_size = 0
        /\ ~file_exists /\ open_handles = {} /\ h = None /\ dir = None
        /\ per_pass = <<>> /\ done = 0
        /\ w_passes = <<>> /\ r_passes = <<>> /\ out = <<>>
        /\ remove_calls = 0

C4_Witness ==
    /\ pc = "exit"
    /\ args.no_autofit /\ free_bytes = 1000 /\ requested = 5000
    /\ err = "InsufficientSpaceError"

\* The condition of line 158 / 187, written out.
MorePasses == done < args.passes \/ total_elapsed < args.min_seconds

\* The step returns the series of the active direction to main.
ReturnStep == pc = "loop" /\ pc' \in {"open", "summarize"}

\* C5: a pass is started exactly when passes_completed < passes or
\* cumulative_elapsed < min_seconds; on a normal return passes_completed >=
\* passes, cumulative_elapsed >= min_seconds and the series returned has one
\* sample per completed pass, appended in pass order; with min_seconds = 0 the
\* series has exactly `passes` samples.
C5_PassLoop ==
    /\ [][(pc = "loop" /\ pc' # "loop") => (ReturnStep <=> ~MorePasses)]_vars
    /\ [][ReturnStep =>
            /\ done >= args.passes
            /\ total_elapsed >= args.min_seconds
            /\ Len(per_pass) = done
            /\ (dir = "write" => w_passes' = per_pass)
            /\ (dir = "read" => r_passes' = per_pass)
            /\ (args.min_seconds = 0 => Len(per_pass) = args.passes)]_vars
    /\ [][(pc = "xfer" /\ pc' = "loop") =>
            /\ Len(per_pass') = done'
            /\ done' = done + 1
            /\ SubSeq(per_pass', 1, done) = per_pass]_vars
    /\ [](pc \in {"loop", "xfer"} => Len(per_pass) = done)

\* The minimum duration forced more passes than --passes asked for.
C5_Witness ==
    /\ pc = "summarize"
    /\ args.passes > 0
    /\ Len(w_passes) > args.passes
    /\ Len(r_passes) = args.passes

\* The free space values a plan is compared against.
FreeProbe == FreeGrid \cup {250 * k : k \in 0..(4 * MaxFreeK)} \cup {1000000}

\* C6: with autofit on and the other inputs fixed, more free space never gives
\* a smaller planned file_size.
C6_AutofitMonotone ==
    (JustPlanned /\ ~args.no_autofit) =>
        \A f \in FreeProbe :
            LET other == PlanFile(f, sector_size, requested, args.block_kb, FALSE)
            IN  /\ (f <= free_bytes => other <= file_size)
                /\ (f >= free_bytes => other >= file_size)

\* A plan for a nonzero request that less free space makes strictly smaller.
C6_Witness ==
    /\ JustPlanned /\ ~args.no_autofit
    /\ requested > 0
    /\ \E f \in FreeProbe :
        /\ f < free_bytes
        /\ PlanFile(f, sector_size, requested, args.block_kb, FALSE) < file_size

\* C7: a sample is appended only at the end of a pass that started at offset 0
\* and moved exactly file_size bytes; the first short or failed transfer ends
\* the run without a sample for that pass, without a retry, without another
\* pass of either direction and without any summary.
C7_NoPartialSuccess ==
    /\ [][Len(per_pass') > Len(per_pass) =>
            (remaining = 0 /\ pos = file_size /\ err = None)]_vars
    /\ [][(err = None /\ err' = "PartialTransferError") =>
            (per_pass' = per_pass /\ done' = done /\ pc' = "cleanup")]_vars
    /\ [][err # None =>
            UNCHANGED <<per_pass, done, remaining, pos, dir, h, open_handles,
                        w_passes, r_passes, out, err>>]_vars
    /\ [](err = "PartialTransferError" =>
            /\ out = <<>>
            /\ pc \in {"cleanup", "exit"}
            /\ (dir = "write" => w_passes = <<>> /\ r_passes = <<>>)
            /\ (dir = "read" => r_passes = <<>>))

\* A read transfer failed after the write direction had returned its samples.
C7_Witness ==
    /\ pc = "exit"
    /\ err = "PartialTransferError"
    /\ dir = "read"
    /\ Len(w_passes) > 0
    /\ Len(per_pass) > 0
    /\ out = <<>>

\* C8: a handle is open only while its direction runs, so at most one handle
\* is open, the write handle is closed before the read handle is opened, and
\* no handle is open once a direction has been left, by return or by exception.
C8_HandlesClosed ==
    /\ [](Cardinality(open_handles) <= 1)
    /\ [](open_handles \subseteq {dir})
    /\ [](h = None <=> open_handles = {})
    /\ []((pc \in {"open", "summarize", "cleanup", "exit"}) => open_handles = {})
    /\ [][("read" \in open_handles' /\ "read" \notin open_handles) =>
            "write" \notin open_handles]_vars

\* The read handle was opened and the buffer allocation then failed.
C8_Witness ==
    /\ pc = "exit"
    /\ err = "AllocationError"
    /\ dir = "read"
    /\ open_handles = {}

\* C9: a run that reached the write direction calls os.remove on the test file
\* exactly once, at its end, unless --keep was given, whether it failed or not;
\* the outcome of os.remove never changes the error of the run; with --keep
\* the file is never deleted.
C9_Cleanup ==
    /\ []((pc = "exit" /\ err # "InsufficientSpaceError") =>
            remove_calls = IF args.keep THEN 0 ELSE 1)
    /\ [](pc # "exit" => remove_calls = 0)
    /\ [][pc = "cleanup" => (err' = err /\ pc' = "exit")]_vars
    /\ [][(file_exists /\ ~file_exists') => (pc = "cleanup" /\ ~args.keep)]_vars
    /\ [](args.keep => remove_calls = 0)

\* A failed run whose test file was removed.
C9_Witness ==
    /\ pc = "exit"
    /\ ~args.keep
    /\ err = "PartialTransferError"
    /\ remove_calls = 1
    /\ ~file_exists

\* The pass loop of a direction is running.
InLoop == pc \in {"loop", "xfer"}

\* C10 as stated: the pass loop stops whatever the measured durations are,
\* zero included.  The loop condition reads only done and total_elapsed, so the
\* loop stops for every sequence of durations only if every completed pass
\* brings it closer to stopping: the pass is one of the `passes` asked for, or
\* it adds to total_elapsed.  (After a pass that does neither, the loop
\* condition holds as before and the next pass may measure zero again.)
C10_EveryPassProgresses ==
    [][(pc = "xfer" /\ pc' = "loop") =>
        (done < args.passes \/ total_elapsed' > total_elapsed)]_vars

\* C10 amended: the pass loop of a direction stops when min_seconds = 0 or
\* every pass measures at least one tick; a pass that measures zero ticks
\* records the sample 0.
C10_StopsWithProgress ==
    /\ (InLoop /\ (args.min_seconds = 0 \/ clock_floor >= 1)) ~> ~InLoop
    /\ [][(pc = "xfer" /\ pc' = "loop" /\ total_elapsed' = total_elapsed) =>
            per_pass'[Len(per_pass')] = <<0, 1>>]_vars

\* A direction returned although one of its passes measured zero ticks.
C10_Witness ==
    /\ pc = "summarize"
    /\ clock_floor = 0
    /\ \E i \in 1..Len(r_passes) : r_passes[i] = <<0, 1>>
    /\ \E i \in 1..Len(r_passes) : r_passes[i] # <<0, 1>>

====
